---- MODULE Spec2Model ----
(***************************************************************************)
(* Model of plotting/plot_waveforms.py: the classifier of spike timestamps *)
(* (assign_timestamp_type, calc_is_tagged), the aligner                    *)
(* (align_tagged_spont) and the entry point load_plot_tagged_waveforms.    *)
(*                                                                         *)
(* Timestamps are integers: one unit is one tick of 5 ms, so that the      *)
(* default window of 0.01 s is 2 ticks and differences are exact.          *)
(* Sample amplitudes are integers.  Python indices are 0-based and are     *)
(* kept 0-based in the operators below; a TLA+ sequence s holds Python's   *)
(* s[i] at s[i + 1].                                                       *)
(***************************************************************************)
EXTENDS Integers, Sequences, FiniteSets, TLC

VARIABLES
    pc,                     \* position of the call being modelled
    event_stamps,           \* classifier input: event timestamps
    spike_times,            \* classifier input: spike timestamps
    window,                 \* classifier input: tagging window
    tagged_spike_times,     \* classifier output / `tagged` of the entry point
    untagged_spike_times,   \* classifier output / `spont` of the entry point
    tagged_waveforms,       \* WaveformSet of the tagged spikes
    spont_waveforms,        \* WaveformSet of the spontaneous spikes
    spont_max_index,        \* align_tagged_spont: the reference sample index
    tagged_offsets,         \* align_tagged_spont: the peak index of each waveform
    offset_tagged_waveforms,\* value returned by align_tagged_spont
    wideband,               \* the loaded wideband recording (entry point)
    plot_flag,              \* argument of the entry point
    stages,                 \* the stages the entry point has run, in order
    figures                 \* the WaveformSets handed to plot_all_cutouts

classifier_inputs == << event_stamps, spike_times, window >>
classifier_outputs == << tagged_spike_times, untagged_spike_times >>
waveform_sets == << tagged_waveforms, spont_waveforms >>
aligner_locals == << spont_max_index, tagged_offsets, offset_tagged_waveforms >>
entry_point_state == << wideband, plot_flag, stages, figures >>

vars == << pc, classifier_inputs, classifier_outputs, waveform_sets,
           aligner_locals, entry_point_state >>

----------------------------------------------------------------------------
(* Bounds of the model *)

MaxTime == 3        \* timestamps are drawn from 0..MaxTime
MaxEvents == 2      \* event sequences have at most MaxEvents elements
MaxSpikes == 3      \* spike sequences have at most MaxSpikes elements
MaxWindow == 3      \* windows are drawn from 0..MaxWindow

Times == 0..MaxTime

SeqsUpTo(S, n) == UNION { [1..k -> S] : k \in 0..n }

Range(s) == { s[i] : i \in 1..Len(s) }

\* The sequence f as a tuple whose elements are evaluated once; TLC
\* evaluates the body of a function constructor again at each application.
array(f) == f \o << >>

IsSorted(s) == \A i \in 1..Len(s), j \in 1..Len(s) : i < j => s[i] <= s[j]

----------------------------------------------------------------------------
(* The classifier *)

\* bisect.bisect_left(a, x): the loop of the standard library, on the
\* 0-based bounds lo and hi; it does not require a to be sorted to terminate.
RECURSIVE bisect_left_loop(_, _, _, _)
bisect_left_loop(a, x, lo, hi) ==
    IF lo < hi
      THEN LET mid == (lo + hi) \div 2
           IN  IF a[mid + 1] < x
                 THEN bisect_left_loop(a, x, mid + 1, hi)
                 ELSE bisect_left_loop(a, x, lo, mid)
      ELSE lo

bisect_left(a, x) == bisect_left_loop(a, x, 0, Len(a))

\* calc_is_tagged without the test for event_check_index == -1: Python's
\* event_stamps[-1] is then the last event.
calc_is_tagged_no_guard(events, spike_time, win) ==
    LET event_check_index == bisect_left(events, spike_time) - 1
    IN  IF Len(events) = 0
          THEN FALSE
          ELSE IF event_check_index = -1
                 THEN (spike_time - events[Len(events)]) < win
                 ELSE (spike_time - events[event_check_index + 1]) < win

\* calc_is_tagged with <= in place of the strict comparison.
calc_is_tagged_inclusive(events, spike_time, win) ==
    LET event_check_index == bisect_left(events, spike_time) - 1
    IN  IF event_check_index = -1
          THEN FALSE
          ELSE (spike_time - events[event_check_index + 1]) <= win

calc_is_tagged(events, spike_time, win) ==
    LET event_check_index == bisect_left(events, spike_time) - 1
    IN  IF event_check_index = -1
          THEN FALSE
          ELSE (spike_time - events[event_check_index + 1]) < win

\* tagged_mask of assign_timestamp_type: one boolean per spike, in order.
tagged_mask(events, spikes, win) ==
    [ i \in 1..Len(spikes) |-> calc_is_tagged(events, spikes[i], win) ]

\* spike_times[mask]: the elements at the positions where mask is TRUE, in
\* their order.
RECURSIVE mask_select(_, _)
mask_select(s, mask) ==
    IF Len(s) = 0
      THEN << >>
      ELSE IF mask[1]
             THEN << s[1] >> \o mask_select(Tail(s), Tail(mask))
             ELSE mask_select(Tail(s), Tail(mask))

invert(mask) == [ i \in 1..Len(mask) |-> ~mask[i] ]

\* assign_timestamp_type.  np.array of an empty list of booleans has dtype
\* float64, and ~ (numpy.invert) of a float array raises TypeError: the call
\* with no spikes returns nothing (where numpy refuses a float array as an
\* index the line before has raised already).
assign_timestamp_type(events, spikes, win) ==
    IF Len(spikes) = 0
      THEN [ raised |-> TRUE, tagged |-> << >>, untagged |-> << >> ]
      ELSE LET mask == tagged_mask(events, spikes, win)
           IN  [ raised   |-> FALSE,
                 tagged   |-> mask_select(spikes, mask),
                 untagged |-> mask_select(spikes, invert(mask)) ]

----------------------------------------------------------------------------
(* Specification of a call of assign_timestamp_type *)

NoWaveforms == << >>

InitClassify ==
    /\ pc = "classify"
    /\ event_stamps \in SeqsUpTo(Times, MaxEvents)
    /\ spike_times \in SeqsUpTo(Times, MaxSpikes)
    /\ window \in 0..MaxWindow
    /\ tagged_spike_times = << >>
    /\ untagged_spike_times = << >>
    /\ tagged_waveforms = NoWaveforms
    /\ spont_waveforms = NoWaveforms
    /\ spont_max_index = 0
    /\ tagged_offsets = << >>
    /\ offset_tagged_waveforms = NoWaveforms
    /\ wideband = 0
    /\ plot_flag = FALSE
    /\ stages = << >>
    /\ figures = << >>

Classify ==
    /\ pc = "classify"
    /\ \E r \in { assign_timestamp_type(event_stamps, spike_times, window) } :
           /\ pc' = IF r.raised THEN "TypeError" ELSE "classified"
           /\ tagged_spike_times' = r.tagged
           /\ untagged_spike_times' = r.untagged
    /\ UNCHANGED << classifier_inputs, waveform_sets, aligner_locals,
                    entry_point_state >>

NextClassify == Classify

SpecClassify == InitClassify /\ [][NextClassify]_vars

----------------------------------------------------------------------------
(* The aligner.  A Waveform is a sequence of L rows (samples), each a       *)
(* sequence of NCh amplitudes; a WaveformSet is a sequence of Waveforms.    *)

NCh == 4            \* channels of a tetrode: the divisor of the flat argmax
HalfWindow == 6     \* the local search window is [ref - 6, ref + 6)

abs(x) == IF x < 0 THEN -x ELSE x

\* The sum of the elements lo..hi of a sequence (by halves, which keeps the
\* evaluation shallow), and of all of them.
RECURSIVE sum_range(_, _, _)
sum_range(values, lo, hi) ==
    IF lo > hi
      THEN 0
      ELSE IF lo = hi
             THEN values[lo]
             ELSE LET mid == (lo + hi) \div 2
                  IN  sum_range(values, lo, mid) + sum_range(values, mid + 1, hi)

sum_seq(values) == sum_range(values, 1, Len(values))

\* np.mean(np.abs(waveforms), axis = 0) of a non-empty set: an (L, NCh)
\* array.  The model holds the numerator of each mean, the sum over the
\* waveforms; the denominator is the same positive N everywhere, so the
\* argmax is that of the means.
mean_abs_axis0(waveforms) ==
    array([ r \in 1..Len(waveforms[1]) |->
        array([ c \in 1..Len(waveforms[1][r]) |->
            sum_seq([ n \in 1..Len(waveforms) |->
                        abs(waveforms[n][r][c]) ]) ]) ])

\* np.abs of one (rows, NCh) array.
np_abs(m) ==
    array([ r \in 1..Len(m) |->
        array([ c \in 1..Len(m[r]) |-> abs(m[r][c]) ]) ])

\* The flattened (row-major) view np.argmax works on.
\* The element at place k (0-based) is that of row k div C, column k mod C.
flatten(m) ==
    IF Len(m) = 0
      THEN << >>
      ELSE LET C == Len(m[1])
           IN  array([ k \in 1..(Len(m) * C) |->
                   m[((k - 1) \div C) + 1][((k - 1) % C) + 1] ])

\* The largest value of a non-empty flat array.
amax(flat) ==
    LET values == { flat[j] : j \in 1..Len(flat) }
    IN  CHOOSE v \in values : \A u \in values : u <= v

\* np.argmax of a non-empty flat array, read as the last of the maxima.
argmax_last(flat) ==
    LET places == { k \in 0..(Len(flat) - 1) : flat[k + 1] = amax(flat) }
    IN  CHOOSE k \in places : \A j \in places : j <= k

\* np.argmax of a non-empty flat array: the 0-based index of the first
\* occurrence of the largest value.
argmax(flat) ==
    LET places == { k \in 0..(Len(flat) - 1) : flat[k + 1] = amax(flat) }
    IN  CHOOSE k \in places : \A j \in places : k <= j

\* int(np.argmax(np.mean(np.abs(spont_waveforms), axis = 0)) / 4).  The mean
\* of an empty set is NaN everywhere and the argmax of an all-NaN array is 0.
calc_spont_max_index(spont) ==
    IF Len(spont) = 0
      THEN 0
      ELSE argmax(flatten(mean_abs_axis0(spont))) \div NCh

\* a[start:stop] with the start clipped to 0 when it is negative.
slice_rows_clipped(w, start, stop) ==
    LET L  == Len(w)
        lo == IF start < 0 THEN 0 ELSE IF start > L THEN L ELSE start
        hi == IF stop < 0 THEN 0 ELSE IF stop > L THEN L ELSE stop
    IN  IF lo < hi THEN SubSeq(w, lo + 1, hi) ELSE << >>

\* Python's a[start:stop] along the first axis: a negative bound counts from
\* the end (L is added to it), and only then the bound is clipped to [0, L].
slice_rows(w, start, stop) ==
    LET L  == Len(w)
        s1 == IF start < 0 THEN start + L ELSE start
        e1 == IF stop < 0 THEN stop + L ELSE stop
        lo == IF s1 < 0 THEN 0 ELSE IF s1 > L THEN L ELSE s1
        hi == IF e1 < 0 THEN 0 ELSE IF e1 > L THEN L ELSE e1
    IN  IF lo < hi THEN SubSeq(w, lo + 1, hi) ELSE << >>

\* cur_waveform[spont_max_index-6:spont_max_index+6, :]
centered_waveform(cur_waveform, ref) ==
    slice_rows(cur_waveform, ref - HalfWindow, ref + HalfWindow)

\* calc_waveform_max keeping the last of the maxima of the window.
calc_waveform_max_last(cur_waveform, ref) ==
    (argmax_last(flatten(np_abs(centered_waveform(cur_waveform, ref)))) \div NCh)
        + ref - HalfWindow

\* calc_waveform_max of a waveform whose centered window is not empty
\* (np.argmax of an empty array raises ValueError).
calc_waveform_max(cur_waveform, ref) ==
    (argmax(flatten(np_abs(centered_waveform(cur_waveform, ref)))) \div NCh)
        + ref - HalfWindow

\* np.roll(w, shift, axis = 0) with the sign of the shift reversed.
np_roll_reversed(w, shift) ==
    array([ j \in 1..Len(w) |-> w[((j - 1 + shift) % Len(w)) + 1] ])

\* np.roll(w, shift, axis = 0): the row at i moves to (i + shift) mod L.
np_roll(w, shift) ==
    array([ j \in 1..Len(w) |-> w[((j - 1 - shift) % Len(w)) + 1] ])

\* align_tagged_spont: the locals and the returned list, or raised when
\* some tagged waveform has an empty centered window.
align_tagged_spont(tagged, spont) ==
    LET ref == calc_spont_max_index(spont)
    IN  IF \E i \in 1..Len(tagged) : Len(centered_waveform(tagged[i], ref)) = 0
          THEN [ raised |-> TRUE, ref |-> ref, offsets |-> << >>,
                 value |-> << >> ]
          ELSE LET offsets == array([ i \in 1..Len(tagged) |->
                                  calc_waveform_max(tagged[i], ref) ])
               IN  [ raised  |-> FALSE,
                     ref     |-> ref,
                     offsets |-> offsets,
                     value   |-> array([ i \in 1..Len(tagged) |->
                                     np_roll(tagged[i], -offsets[i] + ref) ]) ]

----------------------------------------------------------------------------
(* Specification of a call of align_tagged_spont *)

MaxLen == 13        \* the longest cutout, in samples
MaxAmp == 3         \* the largest absolute amplitude of a sample

CutoutLengths == { MaxLen - 10, MaxLen - 3, MaxLen }

PeakValues == { -MaxAmp, MaxAmp - 1 }

FlatWaveform(L) == [ r \in 1..L |-> [ c \in 1..NCh |-> 0 ] ]

\* Zero but for the amplitude v at sample r (0-based) of the first channel.
OnePeak(L, r, v) ==
    [ FlatWaveform(L) EXCEPT ![r + 1][1] = v ]

\* Zero but for v1 at sample r1 of the first channel and v2 at sample r2 of
\* the last channel.
TwoPeaks(L, r1, v1, r2, v2) ==
    [ FlatWaveform(L) EXCEPT ![r1 + 1][1] = v1, ![r2 + 1][NCh] = v2 ]

OnePeakWaveforms(L) ==
    { OnePeak(L, r, v) : r \in 0..(L - 1), v \in PeakValues }

\* One peak of the largest absolute amplitude.
DominantWaveforms(L) == { OnePeak(L, r, -MaxAmp) : r \in 0..(L - 1) }

TwoPeakWaveforms(L) ==
    { TwoPeaks(L, r1, v1, r2, v2) :
        r1 \in 0..(L - 1), v1 \in PeakValues,
        r2 \in 0..(L - 1), v2 \in PeakValues }

\* The sets aligned against themselves: one waveform, or two.
ReferenceSets(L) ==
    { << w >> : w \in TwoPeakWaveforms(L) }
      \cup { << w1, w2 >> : w1 \in TwoPeakWaveforms(L),
                            w2 \in DominantWaveforms(L) }

TaggedSets(L) ==
    { << >>, << FlatWaveform(L) >> }
      \cup { << w >> : w \in TwoPeakWaveforms(L) }
      \cup { << w1, w2 >> : w1 \in OnePeakWaveforms(L),
                            w2 \in DominantWaveforms(L) }

InitAlign ==
    /\ pc = "align"
    /\ \E L \in CutoutLengths :
          \/ /\ spont_waveforms \in ReferenceSets(L)
             /\ tagged_waveforms = spont_waveforms
          \/ /\ spont_waveforms \in { << w >> : w \in DominantWaveforms(L) }
             /\ tagged_waveforms \in TaggedSets(L)
    /\ event_stamps = << >>
    /\ spike_times = << >>
    /\ window = 0
    /\ tagged_spike_times = << >>
    /\ untagged_spike_times = << >>
    /\ spont_max_index = 0
    /\ tagged_offsets = << >>
    /\ offset_tagged_waveforms = NoWaveforms
    /\ wideband = 0
    /\ plot_flag = FALSE
    /\ stages = << >>
    /\ figures = << >>

Align ==
    /\ pc = "align"
    /\ \E r \in { align_tagged_spont(tagged_waveforms, spont_waveforms) } :
           /\ pc' = IF r.raised THEN "ValueError" ELSE "aligned"
           /\ spont_max_index' = r.ref
           /\ tagged_offsets' = r.offsets
           /\ offset_tagged_waveforms' = r.value
    /\ UNCHANGED << classifier_inputs, classifier_outputs, waveform_sets,
                    entry_point_state >>

NextAlign == Align

SpecAlign == InitAlign /\ [][NextAlign]_vars

----------------------------------------------------------------------------
(* The entry point load_plot_tagged_waveforms *)

DefaultWindow == 2  \* window = 0.01 s, in ticks of 5 ms
NumPre == 9         \* samples of a cutout before its timestamp
NumPlot == 100      \* plot_all_cutouts plots at most num_plot cutouts

\* The sample at which the recording `lag` peaks in the cutout at time t.
PeakSample(L, lag, t) == (NumPre + lag * t) % L

\* The amplitude of that peak.
PeakAmplitude(t) == IF t % 2 = 0 THEN t - MaxAmp ELSE MaxAmp - 1

\* The constant level each channel adds to every sample of a recording.
DCLevel == << 1, 0, 0, 2 >>

\* nlxio.helper_functions.extract_waveform_at_timestamp for one timestamp:
\* a cutout of L samples by NCh channels.  A recording is modelled by the
\* cutout it holds at each time.
Cutout(L, lag, t) ==
    array([ r \in 1..L |->
        array([ c \in 1..NCh |->
            DCLevel[c]
              + (IF c = 1 /\ r = PeakSample(L, lag, t) + 1
                   THEN PeakAmplitude(t) ELSE 0) ]) ])

\* nlxio.nlx_to_dat.load_nlx: what the files of the tetrode may hold.
Recordings ==
    { [ t \in Times |-> Cutout(L, lag, t) ] :
        L \in { MaxLen - 3, MaxLen }, lag \in { 1 } }

\* nlxio.helper_functions.extract_waveform_at_timestamp: one cutout per
\* timestamp, in order.
extract_waveform_at_timestamp(recording, timestamps) ==
    array([ i \in 1..Len(timestamps) |-> recording[timestamps[i]] ])

\* np.apply_over_axes(np.mean, waveforms, axes = [0,1])[0][0] of a non-empty
\* set: the mean over the waveforms (axis 0), then the mean of that over the
\* samples (axis 1), one value per channel.  The model holds the numerator;
\* the denominator is N * L (see offset_denominator).
apply_over_axes_mean(waveforms) ==
    LET over_axis0 ==
            array([ r \in 1..Len(waveforms[1]) |->
                array([ c \in 1..Len(waveforms[1][r]) |->
                    sum_seq([ n \in 1..Len(waveforms) |->
                                waveforms[n][r][c] ]) ]) ])
    IN  array([ c \in 1..Len(waveforms[1][1]) |->
            sum_seq([ r \in 1..Len(over_axis0) |-> over_axis0[r][c] ]) ])

offset_denominator(waveforms) == Len(waveforms) * Len(waveforms[1])

\* waveforms -= offset with a mean taken per waveform instead of per set.
subtract_baseline_per_waveform(waveforms) ==
    IF Len(waveforms) = 0
      THEN waveforms
      ELSE array([ n \in 1..Len(waveforms) |->
               array([ r \in 1..Len(waveforms[n]) |->
                   array([ c \in 1..Len(waveforms[n][r]) |->
                       waveforms[n][r][c] * offset_denominator(waveforms)
                         - Len(waveforms)
                             * apply_over_axes_mean(<< waveforms[n] >>)[c] ]) ]) ])

\* offset = np.apply_over_axes(...)[0][0]; waveforms -= offset.  The exact
\* value of a sample afterwards is the integer held here divided by
\* offset_denominator(waveforms): x - num/den = (x * den - num) / den.
\* The mean of an empty set is NaN and there is nothing to subtract it from.
subtract_baseline(waveforms) ==
    IF Len(waveforms) = 0
      THEN waveforms
      ELSE LET offset == apply_over_axes_mean(waveforms)
               den == offset_denominator(waveforms)
           IN  array([ n \in 1..Len(waveforms) |->
                   array([ r \in 1..Len(waveforms[n]) |->
                       array([ c \in 1..Len(waveforms[n][r]) |->
                           waveforms[n][r][c] * den - offset[c] ]) ]) ])

\* plot_all_cutouts: the cutouts that are drawn, cutouts[0:num_plot].
plot_all_cutouts(cutouts) ==
    SubSeq(cutouts, 1, IF Len(cutouts) < NumPlot THEN Len(cutouts) ELSE NumPlot)

EntryTimes == 0..(MaxTime - 1)

InitLoadPlot ==
    /\ pc = "load"
    /\ event_stamps \in SeqsUpTo(EntryTimes, MaxEvents - 1)
    /\ spike_times \in SeqsUpTo(EntryTimes, MaxSpikes - 1)
    /\ window = DefaultWindow
    /\ plot_flag \in BOOLEAN
    /\ tagged_spike_times = << >>
    /\ untagged_spike_times = << >>
    /\ tagged_waveforms = NoWaveforms
    /\ spont_waveforms = NoWaveforms
    /\ spont_max_index = 0
    /\ tagged_offsets = << >>
    /\ offset_tagged_waveforms = NoWaveforms
    /\ wideband = 0
    /\ stages = << >>
    /\ figures = << >>

\* wideband = nlxio.nlx_to_dat.load_nlx(channel_range)
LoadWideband ==
    /\ pc = "load"
    /\ wideband' \in Recordings
    /\ stages' = Append(stages, "load")
    /\ pc' = "tag"
    /\ UNCHANGED << classifier_inputs, classifier_outputs, waveform_sets,
                    aligner_locals, plot_flag, figures >>

\* tagged, spont = assign_timestamp_type(event_times, spike_times)
TagSpikes ==
    /\ pc = "tag"
    /\ \E r \in { assign_timestamp_type(event_stamps, spike_times, window) } :
           /\ pc' = IF r.raised THEN "TypeError" ELSE "extract"
           /\ tagged_spike_times' = r.tagged
           /\ untagged_spike_times' = r.untagged
    /\ stages' = Append(stages, "classify")
    /\ UNCHANGED << classifier_inputs, waveform_sets, aligner_locals,
                    wideband, plot_flag, figures >>

\* the two calls of extract_waveform_at_timestamp
ExtractCutouts ==
    /\ pc = "extract"
    /\ tagged_waveforms' =
          extract_waveform_at_timestamp(wideband, tagged_spike_times)
    /\ spont_waveforms' =
          extract_waveform_at_timestamp(wideband, untagged_spike_times)
    /\ stages' = Append(stages, "extract")
    /\ pc' = "subtract"
    /\ UNCHANGED << classifier_inputs, classifier_outputs, aligner_locals,
                    wideband, plot_flag, figures >>

\* tagged_waveforms -= tagged_offset; spont_waveforms -= spont_offset
SubtractBaseline ==
    /\ pc = "subtract"
    /\ tagged_waveforms' = subtract_baseline(tagged_waveforms)
    /\ spont_waveforms' = subtract_baseline(spont_waveforms)
    /\ stages' = Append(stages, "remove_baseline")
    /\ pc' = "align"
    /\ UNCHANGED << classifier_inputs, classifier_outputs, aligner_locals,
                    wideband, plot_flag, figures >>

\* The align stage storing the aligned set as the spontaneous set too.
AlignTaggedReplacingBoth ==
    /\ pc = "align"
    /\ \E r \in { align_tagged_spont(tagged_waveforms, spont_waveforms) } :
           /\ pc' = IF r.raised THEN "ValueError" ELSE "plot"
           /\ spont_max_index' = r.ref
           /\ tagged_offsets' = r.offsets
           /\ offset_tagged_waveforms' = r.value
           /\ tagged_waveforms' = IF r.raised THEN tagged_waveforms ELSE r.value
           /\ spont_waveforms' = IF r.raised THEN spont_waveforms ELSE r.value
    /\ stages' = Append(stages, "align")
    /\ UNCHANGED << classifier_inputs, classifier_outputs, wideband,
                    plot_flag, figures >>

\* tagged_waveforms = align_tagged_spont(tagged_waveforms, spont_waveforms)
AlignTagged ==
    /\ pc = "align"
    /\ \E r \in { align_tagged_spont(tagged_waveforms, spont_waveforms) } :
           /\ pc' = IF r.raised THEN "ValueError" ELSE "plot"
           /\ spont_max_index' = r.ref
           /\ tagged_offsets' = r.offsets
           /\ offset_tagged_waveforms' = r.value
           /\ tagged_waveforms' = IF r.raised THEN tagged_waveforms ELSE r.value
    /\ stages' = Append(stages, "align")
    /\ UNCHANGED << classifier_inputs, classifier_outputs, spont_waveforms,
                    wideband, plot_flag, figures >>

\* if plot_flag: the two calls of plot_all_cutouts.  cutouts[0] of an empty
\* set raises IndexError, after the tagged figure when it is the
\* spontaneous set that is empty.
PlotCutouts ==
    /\ pc = "plot"
    /\ plot_flag
    /\ stages' = Append(stages, "plot")
    /\ IF Len(tagged_waveforms) = 0
         THEN /\ pc' = "IndexError"
              /\ figures' = figures
         ELSE IF Len(spont_waveforms) = 0
                THEN /\ pc' = "IndexError"
                     /\ figures' = << plot_all_cutouts(tagged_waveforms) >>
                ELSE /\ pc' = "return"
                     /\ figures' = << plot_all_cutouts(tagged_waveforms),
                                      plot_all_cutouts(spont_waveforms) >>
    /\ UNCHANGED << classifier_inputs, classifier_outputs, waveform_sets,
                    aligner_locals, wideband, plot_flag >>

\* return np.array(tagged_waveforms), np.array(spont_waveforms)
Return ==
    /\ \/ pc = "plot" /\ ~plot_flag
       \/ pc = "return"
    /\ pc' = "returned"
    /\ UNCHANGED << classifier_inputs, classifier_outputs, waveform_sets,
                    aligner_locals, entry_point_state >>

NextLoadPlot ==
    \/ LoadWideband
    \/ TagSpikes
    \/ ExtractCutouts
    \/ SubtractBaseline
    \/ AlignTagged
    \/ PlotCutouts
    \/ Return

SpecLoadPlot == InitLoadPlot /\ [][NextLoadPlot]_vars

----------------------------------------------------------------------------
(* Properties of the classifier *)

Classified == pc = "classified"

\* The events that are at or before the timestamp t.
EventsUpTo(events, t) == { e \in Range(events) : e <= t }

Latest(S) == CHOOSE e \in S : \A f \in S : f <= e

\* The classification rule as the specification words it: tagged iff some
\* event is <= t and t minus the latest such event is < window.
TaggedByLatestEventUpTo(events, t, win) ==
    /\ EventsUpTo(events, t) # {}
    /\ t - Latest(EventsUpTo(events, t)) < win

\* C1: for sorted events, every spike t is put in the tagged output iff some
\* event is <= t and t minus the latest event <= t is < window, and in the
\* spontaneous output otherwise; a spike at an event's timestamp is tagged
\* for every window > 0.
C1_TaggedIffWithinWindowOfLatestEventUpTo ==
    (Classified /\ IsSorted(event_stamps)) =>
        \A i \in 1..Len(spike_times) :
            LET t == spike_times[i]
                claimed == TaggedByLatestEventUpTo(event_stamps, t, window)
            IN  /\ (t \in Range(tagged_spike_times)) <=> claimed
                /\ (t \in Range(untagged_spike_times)) <=> ~claimed

\* s is m's selection of the elements of the sequence all, in their order.
IsSelection(s, all, m) == s = mask_select(all, m)

\* C2: for every event sequence, spike sequence and window the call returns
\* a stable partition of the spikes: some assignment of the input positions
\* to the two outputs gives each output as the selected spikes in their
\* input order (so the lengths add up and nothing is duplicated or dropped).
C2_ReturnsStablePartition ==
    (pc # "classify") =>
        /\ Classified
        /\ \E m \in [1..Len(spike_times) -> BOOLEAN] :
              /\ IsSelection(tagged_spike_times, spike_times, m)
              /\ IsSelection(untagged_spike_times, spike_times, invert(m))
        /\ Len(tagged_spike_times) + Len(untagged_spike_times) = Len(spike_times)

\* The events that are before the timestamp t.
EventsBefore(events, t) == { e \in Range(events) : e < t }

\* C5: for sorted events and a window > 0, a spike exactly window after its
\* nearest preceding event is spontaneous (the comparison is strict), and a
\* spike one time step (one tick) less than window after its nearest
\* preceding event is tagged.
C5_WindowBoundary ==
    (Classified /\ IsSorted(event_stamps) /\ window > 0) =>
        \A i \in 1..Len(spike_times) :
            LET t == spike_times[i]
                before == EventsBefore(event_stamps, t)
            IN  before # {} =>
                  /\ (t - Latest(before) = window)
                        => /\ t \in Range(untagged_spike_times)
                           /\ t \notin Range(tagged_spike_times)
                  /\ (t - Latest(before) = window - 1)
                        => /\ t \in Range(tagged_spike_times)
                           /\ t \notin Range(untagged_spike_times)

\* With sorted events, one spike exactly window after its nearest preceding
\* event was classified spontaneous and another, one time step nearer to
\* its nearest preceding event, was classified tagged.
C5_Witness ==
    /\ Classified
    /\ IsSorted(event_stamps)
    /\ window > 0
    /\ \E i, k \in 1..Len(spike_times) :
          LET before_i == EventsBefore(event_stamps, spike_times[i])
              before_k == EventsBefore(event_stamps, spike_times[k])
          IN  /\ before_i # {}
              /\ before_k # {}
              /\ spike_times[i] - Latest(before_i) = window
              /\ spike_times[k] - Latest(before_k) = window - 1
              /\ spike_times[i] \in Range(untagged_spike_times)
              /\ spike_times[k] \in Range(tagged_spike_times)

\* C8: a spike whose timestamp is before every event timestamp (or when
\* there is no event) is spontaneous, whatever the window.
C8_NoPrecedingEventIsSpontaneous ==
    Classified =>
        \A i \in 1..Len(spike_times) :
            (\A j \in 1..Len(event_stamps) : spike_times[i] < event_stamps[j])
                => /\ spike_times[i] \in Range(untagged_spike_times)
                   /\ spike_times[i] \notin Range(tagged_spike_times)

\* A spike before every event of a non-empty event sequence has been
\* classified with the largest window, next to a spike that was tagged.
C8_Witness ==
    /\ Classified
    /\ window = MaxWindow
    /\ Len(event_stamps) > 0
    /\ tagged_spike_times # << >>
    /\ \E i \in 1..Len(spike_times) :
          /\ \A j \in 1..Len(event_stamps) : spike_times[i] < event_stamps[j]
          /\ spike_times[i] \in Range(untagged_spike_times)

----------------------------------------------------------------------------
(* Properties of the aligner *)

AlignReturned == pc = "aligned"

AlignEnded == pc \in { "aligned", "ValueError" }

\* The mean absolute amplitude of sample r, channel c (0-based) over the
\* waveforms of S, times the number of waveforms.
CellMeanAbs(S, r, c) ==
    sum_seq([ n \in 1..Len(S) |-> abs(S[n][r + 1][c + 1]) ])

SampleIndices(S) == 0..(Len(S[1]) - 1)

Channels == 0..(NCh - 1)

\* The profile of the specification: the mean absolute amplitude of sample
\* r over all waveforms and all channels (times their number).
ChannelAveragedProfile(S, r) ==
    sum_seq([ c \in 1..NCh |-> CellMeanAbs(S, r, c - 1) ])

\* C3: for a non-empty spontaneous set, ref_index is a sample index at
\* which the channel-averaged mean-abs profile is maximal.
C3_RefIsArgmaxOfChannelAveragedProfile ==
    (AlignEnded /\ Len(spont_waveforms) > 0) =>
        \A r \in SampleIndices(spont_waveforms) :
            ChannelAveragedProfile(spont_waveforms, r)
                <= ChannelAveragedProfile(spont_waveforms, spont_max_index)

\* C3 as amended: ref_index is the first sample index that holds the largest
\* per-channel mean absolute amplitude, the maximum being taken over every
\* (sample, channel) place and not over the channel-averaged profile.
C3_RefIsFirstSampleOfLargestChannelMean ==
    (AlignEnded /\ Len(spont_waveforms) > 0) =>
        /\ spont_max_index \in SampleIndices(spont_waveforms)
        /\ \E c \in Channels :
              LET top == CellMeanAbs(spont_waveforms, spont_max_index, c)
              IN  \A r \in SampleIndices(spont_waveforms), d \in Channels :
                     /\ CellMeanAbs(spont_waveforms, r, d) <= top
                     /\ (r < spont_max_index)
                           => CellMeanAbs(spont_waveforms, r, d) < top

\* ref_index was computed from two waveforms, holds the largest single
\* channel mean, and another sample has the larger channel-averaged value.
C3_Witness ==
    /\ AlignEnded
    /\ Len(spont_waveforms) = 2
    /\ \E r \in SampleIndices(spont_waveforms) :
          ChannelAveragedProfile(spont_waveforms, r)
              > ChannelAveragedProfile(spont_waveforms, spont_max_index)

\* The search window [ref - 6, ref + 6) is inside the cutout.
WindowInRange ==
    /\ Len(spont_waveforms) > 0
    /\ HalfWindow <= spont_max_index
    /\ spont_max_index + HalfWindow <= Len(spont_waveforms[1])

\* out is w shifted circularly along the time axis by shift.
IsShifted(out, w, shift) ==
    /\ Len(out) = Len(w)
    /\ \A j \in 0..(Len(w) - 1) : out[((j + shift) % Len(w)) + 1] = w[j + 1]

\* The largest absolute amplitude among the channels of sample p of w.
AbsMaxOfSample(w, p) ==
    LET amps == { abs(w[p + 1][c + 1]) : c \in Channels }
    IN  CHOOSE a \in amps : \A b \in amps : b <= a

\* Sample p holds the largest absolute amplitude of the samples lo..hi-1
\* of w, over all channels.
IsPeakOf(w, p, lo, hi) ==
    /\ p \in lo..(hi - 1)
    /\ \A r \in lo..(hi - 1), d \in Channels :
          abs(w[r + 1][d + 1]) <= AbsMaxOfSample(w, p)

\* And no sample of lo..hi-1 before p is as large.
IsFirstPeakOf(w, p, lo, hi) ==
    /\ IsPeakOf(w, p, lo, hi)
    /\ \A r \in lo..(p - 1), d \in Channels :
          abs(w[r + 1][d + 1]) < AbsMaxOfSample(w, p)

SameShape(out, w) ==
    /\ Len(out) = Len(w)
    /\ \A j \in 1..Len(w) : Len(out[j]) = Len(w[j])

SameRows(out, w) ==
    \A j \in 1..Len(w) :
        Cardinality({ k \in 1..Len(out) : out[k] = w[j] })
            = Cardinality({ k \in 1..Len(w) : w[k] = w[j] })

\* C4: with the window in range, the call returns one waveform per tagged
\* waveform, in order: the input shifted circularly by -offset, where
\* offset = local_peak - ref_index and local_peak is a sample of
\* [ref - 6, ref + 6) that holds the window's largest absolute amplitude;
\* shape and rows are kept and the row at ref_index is the input's row at
\* local_peak.
C4_ShiftsLocalPeakOntoRef ==
    (AlignEnded /\ WindowInRange) =>
        /\ AlignReturned
        /\ Len(offset_tagged_waveforms) = Len(tagged_waveforms)
        /\ Len(tagged_offsets) = Len(tagged_waveforms)
        /\ \A i \in 1..Len(tagged_waveforms) :
              LET w == tagged_waveforms[i]
                  out == offset_tagged_waveforms[i]
                  local_peak == tagged_offsets[i]
                  offset == local_peak - spont_max_index
              IN  /\ IsPeakOf(w, local_peak, spont_max_index - HalfWindow,
                              spont_max_index + HalfWindow)
                  /\ IsShifted(out, w, -offset)
                  /\ SameShape(out, w)
                  /\ SameRows(out, w)
                  /\ out[spont_max_index + 1] = w[local_peak + 1]

\* Two tagged waveforms were aligned with the window in range, one of them
\* moved by a peak found off ref_index.
C4_Witness ==
    /\ AlignReturned
    /\ WindowInRange
    /\ Len(tagged_waveforms) = 2
    /\ \E i \in 1..Len(tagged_waveforms) :
          /\ tagged_offsets[i] # spont_max_index
          /\ offset_tagged_waveforms[i] # tagged_waveforms[i]

\* Some channel of sample p holds the largest absolute amplitude of w.
LargestAbsAt(w, p) == IsPeakOf(w, p, 0, Len(w))

\* C7: with the window in range, aligning a set against itself returns
\* unshifted (offset 0) every waveform whose largest absolute sample lies
\* at ref_index, and returns a one-waveform set unchanged.
C7_SelfAlignmentKeepsReference ==
    (AlignEnded /\ WindowInRange /\ tagged_waveforms = spont_waveforms) =>
        /\ AlignReturned
        /\ \A i \in 1..Len(tagged_waveforms) :
              LargestAbsAt(tagged_waveforms[i], spont_max_index)
                  => /\ tagged_offsets[i] - spont_max_index = 0
                     /\ offset_tagged_waveforms[i] = tagged_waveforms[i]
        /\ (Len(tagged_waveforms) = 1)
              => offset_tagged_waveforms = tagged_waveforms

\* C7 as amended: the waveform is returned unshifted when its largest
\* absolute sample lies at ref_index and at no earlier sample of the search
\* window; a one-waveform set is returned unchanged.
C7_SelfAlignmentKeepsFirstPeakAtRef ==
    (AlignEnded /\ WindowInRange /\ tagged_waveforms = spont_waveforms) =>
        /\ AlignReturned
        /\ \A i \in 1..Len(tagged_waveforms) :
              ( /\ LargestAbsAt(tagged_waveforms[i], spont_max_index)
                /\ IsFirstPeakOf(tagged_waveforms[i], spont_max_index,
                                 spont_max_index - HalfWindow,
                                 spont_max_index + HalfWindow) )
                  => /\ tagged_offsets[i] - spont_max_index = 0
                     /\ offset_tagged_waveforms[i] = tagged_waveforms[i]
        /\ (Len(tagged_waveforms) = 1)
              => offset_tagged_waveforms = tagged_waveforms

\* A set of two was aligned against itself: one waveform has its largest
\* sample first at ref_index, again later in the window, and is returned
\* unshifted; the other is shifted.
C7_Witness ==
    /\ AlignReturned
    /\ WindowInRange
    /\ tagged_waveforms = spont_waveforms
    /\ Len(tagged_waveforms) = 2
    /\ \E i, k \in 1..2 :
          /\ LargestAbsAt(tagged_waveforms[i], spont_max_index)
          /\ IsFirstPeakOf(tagged_waveforms[i], spont_max_index,
                           spont_max_index - HalfWindow,
                           spont_max_index + HalfWindow)
          /\ \E r \in (spont_max_index + 1)..(spont_max_index + HalfWindow - 1) :
                LargestAbsAt(tagged_waveforms[i], r)
          /\ offset_tagged_waveforms[i] = tagged_waveforms[i]
          /\ offset_tagged_waveforms[k] # tagged_waveforms[k]

Min(a, b) == IF a < b THEN a ELSE b

\* C10: when ref_index < 6 the lower bound of the window clips to 0: the
\* search runs over [0, ref + 6), the call completes, and each waveform is
\* shifted by the peak found in that window.
C10_NegativeLowerBoundClipsToZero ==
    (AlignEnded /\ spont_max_index < HalfWindow) =>
        /\ AlignReturned
        /\ \A i \in 1..Len(tagged_waveforms) :
              LET w == tagged_waveforms[i]
                  hi == Min(Len(w), spont_max_index + HalfWindow)
              IN  \E p \in 0..(hi - 1) :
                     /\ IsFirstPeakOf(w, p, 0, hi)
                     /\ tagged_offsets[i] = p + spont_max_index - HalfWindow
                     /\ IsShifted(offset_tagged_waveforms[i], w,
                                  spont_max_index - tagged_offsets[i])

\* The bounds of the window that is searched when ref - 6 is negative: the
\* lower bound counts from the end of the cutout of length L.
WrappedLow(L, ref) ==
    IF L + ref - HalfWindow < 0 THEN 0 ELSE L + ref - HalfWindow

WrappedHigh(L, ref) == Min(L, ref + HalfWindow)

\* C10 as amended: when ref_index < 6 the lower bound ref - 6 counts from
\* the end of the cutout (L + ref - 6, clipped to 0 only when that is still
\* negative).  The call fails iff that window is empty for some tagged
\* waveform, which it is whenever L >= 12; otherwise each waveform is
\* shifted by 6 minus the position, within that window, of its first peak.
C10_NegativeLowerBoundCountsFromEnd ==
    (AlignEnded /\ spont_max_index < HalfWindow) =>
        /\ (pc = "ValueError") <=>
              \E i \in 1..Len(tagged_waveforms) :
                  WrappedLow(Len(tagged_waveforms[i]), spont_max_index)
                      >= WrappedHigh(Len(tagged_waveforms[i]), spont_max_index)
        /\ (\E i \in 1..Len(tagged_waveforms) :
                Len(tagged_waveforms[i]) >= 2 * HalfWindow)
              => pc = "ValueError"
        /\ AlignReturned =>
              \A i \in 1..Len(tagged_waveforms) :
                  LET w == tagged_waveforms[i]
                      lo == WrappedLow(Len(w), spont_max_index)
                      hi == WrappedHigh(Len(w), spont_max_index)
                  IN  \E p \in lo..(hi - 1) :
                         /\ IsFirstPeakOf(w, p, lo, hi)
                         /\ tagged_offsets[i]
                               = (p - lo) + spont_max_index - HalfWindow
                         /\ IsShifted(offset_tagged_waveforms[i], w,
                                      HalfWindow - (p - lo))

\* ref_index < 6 on cutouts of at least 12 samples: aligning two tagged
\* waveforms failed.
C10_Witness ==
    /\ pc = "ValueError"
    /\ spont_max_index < HalfWindow
    /\ Len(tagged_waveforms) = 2
    /\ Len(tagged_waveforms[1]) >= 2 * HalfWindow

----------------------------------------------------------------------------
(* Properties of the entry point *)

\* The stages of a complete call, in order.
FullOrder ==
    << "load", "classify", "extract", "remove_baseline", "align" >>
        \o (IF plot_flag THEN << "plot" >> ELSE << >>)

IsPrefix(done, order) ==
    Len(done) <= Len(order) /\ SubSeq(order, 1, Len(done)) = done

RawTagged == extract_waveform_at_timestamp(wideband, tagged_spike_times)

RawSpont == extract_waveform_at_timestamp(wideband, untagged_spike_times)

AfterAlign == pc \in { "plot", "return", "returned", "IndexError" }

\* C6: the stages run in the order load, classify, extract, remove
\* baseline, align, plot (plot only when plot_flag), each at most once and
\* none again, and all of them once when the call returns; alignment is
\* given the baseline-removed sets, only the tagged set is replaced by the
\* aligned one, and the spontaneous set stays the baseline-removed one.
C6_StagesOnceInOrder ==
    /\ IsPrefix(stages, FullOrder)
    /\ (pc = "returned") => stages = FullOrder
    /\ (pc = "returned" /\ plot_flag)
          => figures = << plot_all_cutouts(tagged_waveforms),
                          plot_all_cutouts(spont_waveforms) >>
    /\ (~plot_flag) => figures = << >>
    /\ AfterAlign =>
          /\ spont_waveforms = subtract_baseline(RawSpont)
          /\ tagged_waveforms =
                align_tagged_spont(subtract_baseline(RawTagged),
                                   subtract_baseline(RawSpont)).value
          /\ tagged_waveforms = offset_tagged_waveforms

\* A call with plot_flag returned after plotting both sets, with a tagged
\* waveform that alignment had shifted.
C6_Witness ==
    /\ pc = "returned"
    /\ plot_flag
    /\ Len(figures) = 2
    /\ Len(spont_waveforms) > 0
    /\ tagged_waveforms # subtract_baseline(RawTagged)

\* The sum of channel c (1-based) over all samples of all waveforms of S.
ChannelTotal(S, c) ==
    sum_seq([ n \in 1..Len(S) |->
                sum_seq([ r \in 1..Len(S[n]) |-> S[n][r][c] ]) ])

\* X is the set raw with, per channel, the mean of the channel over the
\* whole set subtracted from every sample: with den = N * L the exact
\* samples are X / den, so the value subtracted from raw[n][r][c] is
\* (raw[n][r][c] * den - X[n][r][c]) / den, and it is the channel's total
\* over den.  The channel then sums to 0.
IsBaselineRemoved(X, raw) ==
    /\ Len(X) = Len(raw)
    /\ (Len(raw) > 0) =>
          LET den == Len(raw) * Len(raw[1])
              totals == array([ c \in 1..NCh |-> ChannelTotal(raw, c) ])
          IN  \A c \in 1..NCh :
                 /\ \A n \in 1..Len(raw) :
                        \A r \in 1..Len(raw[n]) :
                            raw[n][r][c] * den - X[n][r][c] = totals[c]
                 /\ ChannelTotal(X, c) = 0

\* C9: baseline removal subtracts from every sample of every waveform of a
\* set the mean of its channel over that whole set, for the tagged and the
\* spontaneous set separately; each channel then sums to 0 over the set
\* (and still does after alignment).
C9_BaselineIsPerChannelSetMean ==
    /\ (pc = "align") => IsBaselineRemoved(tagged_waveforms, RawTagged)
    /\ (pc = "align" \/ AfterAlign)
          => IsBaselineRemoved(spont_waveforms, RawSpont)
    /\ AfterAlign =>
          \A c \in 1..NCh : ChannelTotal(tagged_waveforms, c) = 0

\* The baseline was removed from a set of two waveforms whose channel means
\* differ, and from a channel whose level was not 0.
C9_Witness ==
    /\ pc = "align"
    /\ \E S \in { RawTagged, RawSpont } :
          /\ Len(S) = 2
          /\ ChannelTotal(<< S[1] >>, 1) # ChannelTotal(<< S[2] >>, 1)
          /\ ChannelTotal(S, NCh) # 0

====
